---- MODULE Spec2Model ----
(***************************************************************************)
(* A model of ArduinoControlApp (src/src/autopassgui/app.py): the JSON     *)
(* configuration file and record, the PIN lock gate, the auto-lock timer   *)
(* with its timer thread, the serial handle, and the dialogs whose         *)
(* callbacks read or write that state.                                     *)
(*                                                                         *)
(* Time is counted in whole seconds.  `elapsed` is time.time() minus       *)
(* self.last_activity, saturating at MaxTimeout (every comparison the code *)
(* makes is against a timeout of at most MaxTimeout).  A threading.Timer   *)
(* is its remaining delay.                                                 *)
(***************************************************************************)
EXTENDS Integers, Sequences, FiniteSets, TLC

VARIABLES
    phase,           \* "boot" (before __init__), "run", "down" (after shutdown)
    hasGLib,         \* whether `from gi.repository import GLib` succeeds on this platform
    file,            \* settings.json on disk
    config,          \* self.config
    button_labels,   \* self.button_labels
    is_locked,       \* self.is_locked
    screen,          \* main_window.content: "main" (main_content) or "lock" (lockscreen_box)
    unlock_status,   \* self.unlock_status.text
    elapsed,         \* time.time() - self.last_activity, saturating
    auto_lock_timer, \* self.auto_lock_timer and the Timer it references
    orphans,         \* started Timers that self.auto_lock_timer no longer references,
                     \* as the number of them with each remaining delay
    ttPc,            \* position of the timer thread inside check_auto_lock
    idleQueue,       \* auto_lock_task callbacks queued by GLib.idle_add
    ser,             \* self.ser: "none", "open" or "closed"
    open_handles,    \* number of serial.Serial objects that are open
    connect_btn,     \* self.connect_btn.enabled
    disconnect_btn,  \* self.disconnect_btn.enabled
    status_label,    \* self.status_label.text
    written,         \* the payloads handed to ser.write, in order
    modal,           \* the modal dialog the main window is showing, or "none"
    resetWin,        \* reset_settings suspended in show_pin_input_dialog
    pinDialogs,      \* open "Set Lock PIN" windows, by the current_pin each captured
    renameDlg        \* the key of the open "Rename Button" window, or "none"

vars == <<phase, hasGLib, file, config, button_labels, is_locked, screen,
          unlock_status, elapsed, auto_lock_timer, orphans, ttPc, idleQueue,
          ser, open_handles, connect_btn, disconnect_btn, status_label,
          written, modal, resetWin, pinDialogs, renameDlg>>

(***************************************************************************)
(* Bounds of the model.                                                    *)
(***************************************************************************)
MaxTimeout == 2      \* largest auto_lock_timeout entered or stored
MaxWrites == 2       \* commands written to the port in one run
MaxPinDialogs == 1   \* "Set Lock PIN" windows open at once
MaxQueue == 1        \* auto_lock_task callbacks waiting in the idle queue
MaxOrphans == 1      \* Timers pending without being referenced
MaxHandles == 2      \* open serial.Serial objects counted

Min(a, b) == IF a <= b THEN a ELSE b
Max(a, b) == IF a >= b THEN a ELSE b

(***************************************************************************)
(* Python dict operations.                                                 *)
(***************************************************************************)
\* d.get(k, dflt)
Get(d, k, dflt) == IF k \in DOMAIN d THEN d[k] ELSE dflt

\* d[k] = v
Put(d, k, v) == [x \in (DOMAIN d) \cup {k} |-> IF x = k THEN v ELSE d[x]]

\* {**a, **b}
Merge(a, b) == [k \in (DOMAIN a) \cup (DOMAIN b) |-> IF k \in DOMAIN b THEN b[k] ELSE a[k]]

(***************************************************************************)
(* default_settings                                                        *)
(***************************************************************************)
LabelKeys == {"password1", "password2", "password3", "password4"}

DefaultLabels ==
    [password1 |-> "Send Password 1", password2 |-> "Send Password 2",
     password3 |-> "Send Password 3", password4 |-> "Send Password 4"]

DefaultLock == [enabled |-> FALSE, pin |-> "", auto_lock_timeout |-> 0]

default_settings == [labels |-> DefaultLabels, theme |-> "dark", lock |-> DefaultLock]

(***************************************************************************)
(* JSON.  A JSON object on disk is the sequence of its members <<key,      *)
(* value>> in the order they are written; the value of "labels" and of     *)
(* "lock" is again such a sequence.  json.load builds a dict from it (the  *)
(* last member with a key wins); json.dump writes a dict's members.        *)
(***************************************************************************)
ObjectKeys == {"labels", "lock"}

TopOrder == <<"labels", "theme", "lock", "note">>
LabelOrder == <<"password1", "password2", "password3", "password4">>
LockOrder == <<"enabled", "pin", "auto_lock_timeout">>

MemberKeys(ms) == {ms[i][1] : i \in DOMAIN ms}

LastValue(ms, k) ==
    LET i == CHOOSE n \in DOMAIN ms :
                 /\ ms[n][1] = k
                 /\ \A m \in DOMAIN ms : ms[m][1] = k => m <= n
    IN ms[i][2]

ParseObject(ms) == [k \in MemberKeys(ms) |-> LastValue(ms, k)]

json_load(text) ==
    LET top == ParseObject(text)
    IN [k \in DOMAIN top |-> IF k \in ObjectKeys THEN ParseObject(top[k]) ELSE top[k]]

RECURSIVE DumpObject(_, _)
DumpObject(d, order) ==
    IF order = <<>> THEN <<>>
    ELSE (IF Head(order) \in DOMAIN d
             THEN << <<Head(order), d[Head(order)]>> >>
             ELSE <<>>) \o DumpObject(d, Tail(order))

json_dump(d) ==
    LET nested == [k \in DOMAIN d |->
                      IF k = "labels" THEN DumpObject(d[k], LabelOrder)
                      ELSE IF k = "lock" THEN DumpObject(d[k], LockOrder)
                      ELSE d[k]]
    IN DumpObject(nested, TopOrder)

\* The file system: settings.json is absent, is not valid JSON, is valid JSON
\* that is not an object (an array), or holds a JSON object.
NoFile == [kind |-> "absent", text |-> <<>>]
InvalidFile == [kind |-> "invalid", text |-> <<>>]
ArrayFile == [kind |-> "array", text |-> <<>>]
ObjectFile(text) == [kind |-> "object", text |-> text]

(***************************************************************************)
(* load_config / save_config                                               *)
(***************************************************************************)
\* load_config returning an empty record where reading the file raised
load_config_empty_on_error(f) ==
    IF f.kind = "object"
    THEN Merge(default_settings, json_load(f.text))
    ELSE IF f.kind = "absent" THEN default_settings
    ELSE [k \in {} |-> 0]

\* load_config with the defaults merged over the file
load_config_defaults_last(f) ==
    IF f.kind = "object"
    THEN Merge(json_load(f.text), default_settings)
    ELSE default_settings

load_config(f) ==
    IF f.kind = "object"
    THEN Merge(default_settings, json_load(f.text))
    ELSE default_settings

WriteFile(cfg) == ObjectFile(json_dump(cfg))

(***************************************************************************)
(* The application object.  Self is the record of the fields a handler     *)
(* reads and writes; a handler is a function from that record to the       *)
(* record it leaves, and Commit stores the result.                         *)
(***************************************************************************)
Self ==
    [config |-> config, file |-> file, button_labels |-> button_labels,
     is_locked |-> is_locked, screen |-> screen, unlock_status |-> unlock_status,
     elapsed |-> elapsed, auto_lock_timer |-> auto_lock_timer,
     orphans |-> orphans, ser |-> ser,
     open_handles |-> open_handles, connect_btn |-> connect_btn,
     disconnect_btn |-> disconnect_btn, status_label |-> status_label,
     written |-> written]

Commit(s) ==
    /\ config' = s.config
    /\ file' = s.file
    /\ button_labels' = s.button_labels
    /\ is_locked' = s.is_locked
    /\ screen' = s.screen
    /\ unlock_status' = s.unlock_status
    /\ elapsed' = s.elapsed
    /\ auto_lock_timer' = s.auto_lock_timer
    /\ orphans' = s.orphans
    /\ ser' = s.ser
    /\ open_handles' = s.open_handles
    /\ connect_btn' = s.connect_btn
    /\ disconnect_btn' = s.disconnect_btn
    /\ status_label' = s.status_label
    /\ written' = s.written

EmptyDict == [x \in {} |-> 0]

\* self.config.get("lock", {})
LockOf(cfg) == Get(cfg, "lock", EmptyDict)
StoredPin(cfg) == Get(LockOf(cfg), "pin", "")
StoredTimeout(cfg) == Get(LockOf(cfg), "auto_lock_timeout", 0)

\* self.config["lock"][k] = v
SetLock(cfg, k, v) == Put(cfg, "lock", Put(cfg["lock"], k, v))

save_config(s) == [s EXCEPT !.file = WriteFile(s.config)]

(***************************************************************************)
(* The auto-lock timer.                                                    *)
(***************************************************************************)
NoTimer == [state |-> "none", rem |-> 0]
ArmedTimer(n) == [state |-> "armed", rem |-> n]

stop_auto_lock_timer(s) ==
    IF s.auto_lock_timer.state # "none"
    THEN [s EXCEPT !.auto_lock_timer = NoTimer]
    ELSE s

\* Timers by remaining delay; a Timer is armed with a stored timeout
Delays == 0..MaxTimeout
NoOrphans == [r \in Delays |-> 0]
CountOrphans(o) ==
    LET upTo[r \in Delays] == o[r] + (IF r = 0 THEN 0 ELSE upTo[r - 1])
    IN upTo[MaxTimeout]

\* the pending Timers n seconds later
Age(o, n) ==
    [r \in Delays |->
        IF r = 0
        THEN LET due[k \in Delays] ==
                     o[k] + (IF k = 0 THEN 0 ELSE due[k - 1])
             IN due[Min(n, MaxTimeout)]
        ELSE IF r + n \in Delays THEN o[r + n] ELSE 0]

\* start_auto_lock_timer after its call of stop_auto_lock_timer: the new
\* Timer is assigned over whatever self.auto_lock_timer references then,
\* and a Timer another thread armed meanwhile stays pending, unreferenced.
arm_auto_lock_timer(s) ==
    LET timeout_seconds == StoredTimeout(s.config)
    IN IF timeout_seconds > 0 /\ ~s.is_locked
       THEN [s EXCEPT !.auto_lock_timer = ArmedTimer(timeout_seconds),
                      !.orphans = IF s.auto_lock_timer.state = "armed"
                                  THEN [@ EXCEPT ![s.auto_lock_timer.rem] = @ + 1]
                                  ELSE @]
       ELSE s

\* start_auto_lock_timer run without another thread in between
start_auto_lock_timer(s) == arm_auto_lock_timer(stop_auto_lock_timer(s))

update_activity(s) ==
    LET s1 == [s EXCEPT !.elapsed = 0]
    IN IF ~s1.is_locked THEN start_auto_lock_timer(s1) ELSE s1

\* n seconds pass while the main thread is blocked (time.sleep)
Sleep(s, n) ==
    [s EXCEPT !.elapsed = Min(@ + n, MaxTimeout),
              !.auto_lock_timer =
                  IF @.state = "armed" THEN ArmedTimer(Max(@.rem - n, 0)) ELSE @,
              !.orphans = Age(@, n)]

(***************************************************************************)
(* The lock gate.                                                          *)
(***************************************************************************)
update_ui_visibility(s) ==
    [s EXCEPT !.screen = IF s.is_locked THEN "lock" ELSE "main"]

lock_app(s) ==
    LET s1 == [s EXCEPT !.is_locked = TRUE,
                        !.config = SetLock(@, "enabled", TRUE)]
    IN update_ui_visibility(save_config(s1))

unlock_app(s) ==
    LET s1 == [s EXCEPT !.is_locked = FALSE,
                        !.config = SetLock(@, "enabled", FALSE)]
        s2 == update_ui_visibility(save_config(s1))
    IN [s2 EXCEPT !.unlock_status = "", !.elapsed = 0]

\* attempt_unlock with a wrong PIN counted as activity
attempt_unlock_counting_activity(s, entered_pin) ==
    LET stored_pin == StoredPin(s.config)
    IN IF stored_pin = "" THEN unlock_app(s)
       ELSE IF entered_pin = stored_pin THEN unlock_app(s)
       ELSE [update_activity(s) EXCEPT !.unlock_status = "Incorrect PIN"]

attempt_unlock(s, entered_pin) ==
    LET stored_pin == StoredPin(s.config)
    IN IF stored_pin = "" THEN unlock_app(s)
       ELSE IF entered_pin = stored_pin THEN unlock_app(s)
       ELSE [s EXCEPT !.unlock_status = "Incorrect PIN"]

\* toggle_lock is not a coroutine: the coroutine attempt_unlock(widget) it
\* creates when locked is never awaited, so that branch does nothing.
toggle_lock(s) ==
    LET s1 == update_activity(s)
    IN IF s1.is_locked THEN s1 ELSE lock_app(s1)

toggle_theme(s) ==
    LET s1 == update_activity(s)
        current == Get(s1.config, "theme", "light")
        new_theme == IF current = "light" THEN "dark" ELSE "light"
    IN save_config([s1 EXCEPT !.config = Put(@, "theme", new_theme)])

(***************************************************************************)
(* The serial connection.                                                  *)
(***************************************************************************)
ConnectSleep == 2    \* time.sleep(2) after the port is opened

IsOpen(s) == s.ser = "open"

\* self.ser.close() and the widget updates that follow it in
\* disconnect_arduino and reset_settings
CloseAndShow(s) ==
    [s EXCEPT !.ser = "closed", !.open_handles = @ - 1,
              !.status_label = "Disconnected",
              !.connect_btn = TRUE, !.disconnect_btn = FALSE]

\* connect_arduino keeping the handle of a port whose opening raised
connect_arduino_half_open(s, outcome) ==
    LET s1 == update_activity(s)
    IN IF outcome = "noport" THEN [self |-> s1, modal |-> "no_port"]
       ELSE IF outcome = "error"
       THEN [self |-> [s1 EXCEPT !.ser = "open", !.open_handles = @ + 1],
             modal |-> "connection_error"]
       ELSE [self |-> [Sleep([s1 EXCEPT !.ser = "open", !.open_handles = @ + 1],
                             ConnectSleep)
                          EXCEPT !.status_label = "Connected",
                                 !.connect_btn = FALSE,
                                 !.disconnect_btn = TRUE],
             modal |-> "none"]

\* connect_arduino; outcome is what the selected port does: "noport" (nothing
\* valid selected), "error" (serial.Serial raises) or "ok".  The result is the
\* record left and the modal dialog the coroutine awaits.
connect_arduino(s, outcome) ==
    LET s1 == update_activity(s)
    IN IF outcome = "noport" THEN [self |-> s1, modal |-> "no_port"]
       ELSE IF outcome = "error" THEN [self |-> s1, modal |-> "connection_error"]
       ELSE [self |-> [Sleep([s1 EXCEPT !.ser = "open", !.open_handles = @ + 1],
                             ConnectSleep)
                          EXCEPT !.status_label = "Connected",
                                 !.connect_btn = FALSE,
                                 !.disconnect_btn = TRUE],
             modal |-> "none"]

disconnect_arduino(s) ==
    LET s1 == update_activity(s)
    IN IF IsOpen(s1) THEN CloseAndShow(s1) ELSE s1

\* (cmd + "\n").encode()
Payload(cmd) == cmd \o "\n"

\* send_command testing only that a handle exists, not that it is open
send_command_any_handle(s, cmd) ==
    LET s1 == update_activity(s)
    IN IF s1.ser # "none"
       THEN [self |-> [s1 EXCEPT !.written = Append(@, Payload(cmd))],
             modal |-> "none"]
       ELSE [self |-> s1, modal |-> "not_connected"]

send_command(s, cmd) ==
    LET s1 == update_activity(s)
    IN IF IsOpen(s1)
       THEN [self |-> [s1 EXCEPT !.written = Append(@, Payload(cmd))],
             modal |-> "none"]
       ELSE [self |-> s1, modal |-> "not_connected"]

send_custom_command(s, cmd) ==
    IF cmd # "" THEN send_command(s, cmd) ELSE [self |-> s, modal |-> "none"]

shutdown(s) ==
    LET s1 == stop_auto_lock_timer(s)
    IN IF IsOpen(s1)
       THEN [s1 EXCEPT !.ser = "closed", !.open_handles = @ - 1]
       ELSE s1

(***************************************************************************)
(* rename_button's OK callback.                                            *)
(***************************************************************************)
\* new_name and new_name.strip()
NonBlank(name) == name # "" /\ name # " "

rename_on_ok(s, key, new_name) ==
    IF NonBlank(new_name)
    THEN LET labels == Put(s.button_labels, key, new_name)
         IN save_config([s EXCEPT !.button_labels = labels,
                                  !.config = Put(@, "labels", labels)])
    ELSE s

(***************************************************************************)
(* reset_settings after the confirmation.                                  *)
(***************************************************************************)
reset_confirmed(s) ==
    LET s1 == IF IsOpen(s) THEN CloseAndShow(s) ELSE s
    IN save_config([s1 EXCEPT !.config = default_settings,
                              !.button_labels = default_settings.labels])

(***************************************************************************)
(* change_lock_pin's Save callback.  Text typed into the timeout field is  *)
(* a sequence of characters; int() accepts an optional sign and digits.    *)
(***************************************************************************)
Digits == <<"0", "1", "2", "3", "4", "5", "6", "7", "8", "9">>

IsDigit(c) == \E d \in DOMAIN Digits : Digits[d] = c
DigitValue(c) == (CHOOSE d \in DOMAIN Digits : Digits[d] = c) - 1

RECURSIVE DigitsValue(_, _)
DigitsValue(cs, acc) ==
    IF cs = <<>> THEN acc
    ELSE DigitsValue(Tail(cs), 10 * acc + DigitValue(Head(cs)))

\* int(text): ok is FALSE where int raises ValueError
ParseInt(cs) ==
    LET signed == cs # <<>> /\ Head(cs) \in {"-", "+"}
        body == IF signed THEN Tail(cs) ELSE cs
    IN IF body = <<>> \/ \E i \in DOMAIN body : ~IsDigit(body[i])
       THEN [ok |-> FALSE, value |-> 0]
       ELSE [ok |-> TRUE,
             value |-> IF signed /\ Head(cs) = "-"
                       THEN 0 - DigitsValue(body, 0)
                       ELSE DigitsValue(body, 0)]

\* the "Disable lock" branch of on_save
DisableLock(s) ==
    update_ui_visibility(
        [s EXCEPT !.config = SetLock(SetLock(@, "pin", ""), "enabled", FALSE),
                  !.is_locked = FALSE])

\* The PIN part of on_save.  current_pin is the PIN change_lock_pin read
\* when it built the window; field1 is current_pin_input.value, field2
\* new_pin_input.value and field3 confirm_pin_input.value.
on_save_pin(s, current_pin, field1, field2, field3) ==
    IF current_pin # ""
    THEN IF field1 # current_pin THEN [ok |-> FALSE, self |-> s]
         ELSE IF field2 # field3 THEN [ok |-> FALSE, self |-> s]
         ELSE IF field2 = "" THEN [ok |-> TRUE, self |-> DisableLock(s)]
         ELSE [ok |-> TRUE, self |-> [s EXCEPT !.config = SetLock(@, "pin", field2)]]
    ELSE IF field1 = "" THEN [ok |-> TRUE, self |-> DisableLock(s)]
         ELSE [ok |-> TRUE, self |-> [s EXCEPT !.config = SetLock(@, "pin", field1)]]

\* The timeout part of on_save and its save_config.
on_save_timeout(s, timeout_text) ==
    LET parsed == ParseInt(IF timeout_text = <<>> THEN <<"0">> ELSE timeout_text)
        timeout_value == IF parsed.value < 0 THEN 0 ELSE parsed.value
        s1 == [s EXCEPT !.config = SetLock(@, "auto_lock_timeout", timeout_value)]
        s2 == IF timeout_value > 0
              THEN start_auto_lock_timer(s1)
              ELSE stop_auto_lock_timer(s1)
    IN IF parsed.ok
       THEN [self |-> save_config(s2), close |-> TRUE]
       ELSE [self |-> s, close |-> FALSE]

on_save(s, current_pin, field1, field2, field3, timeout_text) ==
    LET p == on_save_pin(s, current_pin, field1, field2, field3)
    IN IF p.ok
       THEN on_save_timeout(p.self, timeout_text)
       ELSE [self |-> s, close |-> FALSE]

(***************************************************************************)
(* check_auto_lock, run by a Timer's thread.  The part up to the hand-off  *)
(* is one step of that thread; the start_auto_lock_timer that ends it is   *)
(* two more, its stop_auto_lock_timer and the arming: the main thread may  *)
(* run in between.                                                         *)
(***************************************************************************)
\* the Timer self.auto_lock_timer references has run out: it is no longer
\* pending, and cancelling it does nothing
Expired(s) == [s EXCEPT !.auto_lock_timer = NoTimer]

check_auto_lock(s, glib) ==
    LET s0 == s
        timeout_seconds == StoredTimeout(s0.config)
    IN IF s0.is_locked THEN [self |-> s0, queued |-> <<>>, pc |-> "idle"]
       ELSE IF timeout_seconds > 0
       THEN IF s0.elapsed >= timeout_seconds
            THEN IF glib
                 THEN [self |-> s0, queued |-> <<"auto_lock_task">>, pc |-> "resched"]
                 ELSE [self |-> lock_app(s0), queued |-> <<>>, pc |-> "resched"]
            ELSE [self |-> s0, queued |-> <<>>, pc |-> "resched"]
       ELSE [self |-> s0, queued |-> <<>>, pc |-> "idle"]

(***************************************************************************)
(* __init__ followed by startup.                                           *)
(***************************************************************************)
construct(f) ==
    LET cfg == load_config(f)
        s0 == [config |-> cfg, file |-> f,
               button_labels |-> Merge(default_settings.labels,
                                       Get(cfg, "labels", EmptyDict)),
               is_locked |-> Get(LockOf(cfg), "enabled", FALSE),
               screen |-> "main", unlock_status |-> "", elapsed |-> 0,
               auto_lock_timer |-> NoTimer, orphans |-> NoOrphans,
               ser |-> "none", open_handles |-> 0,
               connect_btn |-> TRUE, disconnect_btn |-> FALSE,
               status_label |-> "Not connected", written |-> <<>>]
    IN update_ui_visibility(start_auto_lock_timer(s0))

(***************************************************************************)
(* What the user and the environment can supply.                           *)
(***************************************************************************)
\* PINs the user stores, and what the user types where a PIN is asked for
NewPins == {"", "1"}
PinEntries == NewPins \cup {"2"}

TimeoutTexts ==
    {<<>>, <<"x">>, <<"-", "1">>} \cup {<<Digits[n + 1]>> : n \in 0..MaxTimeout}

PresetKeys == {"password1"}
CustomTexts == {"", "x"}
RenameKeys == {"password1"}
NewNames == {" ", "A"}
PortOutcomes == {"noport", "error", "ok"}

FullConfig(enabled, pin, timeout) ==
    [default_settings EXCEPT !.lock = [enabled |-> enabled, pin |-> pin,
                                       auto_lock_timeout |-> timeout]]

\* settings.json as the application may find it when it starts
InitFiles ==
    {NoFile, InvalidFile,
     WriteFile(FullConfig(FALSE, "1", 1)),
     WriteFile(FullConfig(TRUE, "1", MaxTimeout)),
     ObjectFile(<< <<"lock", << <<"pin", "1">> >> >> >>)}

NoPinDialogs == [p \in PinEntries |-> 0]
OpenPinDialogs == LET n[S \in SUBSET PinEntries] ==
                          IF S = {} THEN 0
                          ELSE LET p == CHOOSE x \in S : TRUE
                               IN pinDialogs[p] + n[S \ {p}]
                  IN n[PinEntries]

NoResetWin == [open |-> FALSE, pin_required |-> ""]

(***************************************************************************)
(* Actions.                                                                *)
(***************************************************************************)
Running == phase = "run"
\* shutdown has returned and the process has not ended yet: the main loop
\* runs no more handlers, the daemon timer threads still run
ProcessAlive == phase \in {"run", "down"}
\* A modal dialog of the main window takes the input of every window.
UserCanAct == Running /\ modal = "none"
OnMainScreen == UserCanAct /\ screen = "main"
OnLockScreen == UserCanAct /\ screen = "lock"

Construct ==
    /\ phase = "boot"
    /\ phase' = "run"
    /\ Commit(construct(file))
    /\ UNCHANGED <<hasGLib, ttPc, idleQueue, modal, resetWin, pinDialogs, renameDlg>>

Tick ==
    /\ ProcessAlive
    /\ Commit(Sleep(Self, 1))
    /\ UNCHANGED <<phase, hasGLib, ttPc, idleQueue, modal, resetWin, pinDialogs, renameDlg>>

TimerFire ==
    /\ ProcessAlive
    /\ auto_lock_timer.state = "armed"
    /\ auto_lock_timer.rem = 0
    /\ ttPc = "idle"
    /\ Len(idleQueue) < MaxQueue
    /\ LET r == check_auto_lock(Expired(Self), hasGLib)
       IN /\ Commit(r.self)
          /\ idleQueue' = idleQueue \o r.queued
          /\ ttPc' = r.pc
    /\ UNCHANGED <<phase, hasGLib, modal, resetWin, pinDialogs, renameDlg>>

\* a Timer that is no longer referenced runs out and runs check_auto_lock
OrphanFire ==
    /\ ProcessAlive
    /\ orphans[0] > 0
    /\ ttPc = "idle"
    /\ Len(idleQueue) < MaxQueue
    /\ LET r == check_auto_lock([Self EXCEPT !.orphans[0] = @ - 1], hasGLib)
       IN /\ Commit(r.self)
          /\ idleQueue' = idleQueue \o r.queued
          /\ ttPc' = r.pc
    /\ UNCHANGED <<phase, hasGLib, modal, resetWin, pinDialogs, renameDlg>>

\* the stop_auto_lock_timer() that opens the thread's start_auto_lock_timer
TimerRescheduleStop ==
    /\ ProcessAlive
    /\ ttPc = "resched"
    /\ Commit(stop_auto_lock_timer(Self))
    /\ ttPc' = "arm"
    /\ UNCHANGED <<phase, hasGLib, idleQueue, modal, resetWin, pinDialogs, renameDlg>>

\* the rest of the thread's start_auto_lock_timer
TimerReschedule ==
    /\ ProcessAlive
    /\ ttPc = "arm"
    /\ CountOrphans(arm_auto_lock_timer(Self).orphans) <= MaxOrphans
    /\ Commit(arm_auto_lock_timer(Self))
    /\ ttPc' = "idle"
    /\ UNCHANGED <<phase, hasGLib, idleQueue, modal, resetWin, pinDialogs, renameDlg>>

\* auto_lock_task, run by the main loop when it is idle
AutoLockTask ==
    /\ Running
    /\ idleQueue # <<>>
    /\ Commit(lock_app(Self))
    /\ idleQueue' = Tail(idleQueue)
    /\ UNCHANGED <<phase, hasGLib, ttPc, modal, resetWin, pinDialogs, renameDlg>>

ToggleLock ==
    /\ OnMainScreen
    /\ Commit(toggle_lock(Self))
    /\ UNCHANGED <<phase, hasGLib, ttPc, idleQueue, modal, resetWin, pinDialogs, renameDlg>>

ToggleTheme ==
    /\ OnMainScreen
    /\ Commit(toggle_theme(Self))
    /\ UNCHANGED <<phase, hasGLib, ttPc, idleQueue, modal, resetWin, pinDialogs, renameDlg>>

AttemptUnlock ==
    /\ OnLockScreen
    /\ \E entered_pin \in PinEntries : Commit(attempt_unlock(Self, entered_pin))
    /\ UNCHANGED <<phase, hasGLib, ttPc, idleQueue, modal, resetWin, pinDialogs, renameDlg>>

Connect ==
    /\ OnMainScreen
    /\ connect_btn
    /\ open_handles < MaxHandles
    /\ \E outcome \in PortOutcomes :
          LET r == connect_arduino(Self, outcome)
          IN Commit(r.self) /\ modal' = r.modal
    /\ UNCHANGED <<phase, hasGLib, ttPc, idleQueue, resetWin, pinDialogs, renameDlg>>

Disconnect ==
    /\ OnMainScreen
    /\ disconnect_btn
    /\ Commit(disconnect_arduino(Self))
    /\ UNCHANGED <<phase, hasGLib, ttPc, idleQueue, modal, resetWin, pinDialogs, renameDlg>>

\* a preset button sending the label it shows
SendPresetLabel ==
    /\ OnMainScreen
    /\ Len(written) < MaxWrites
    /\ \E key \in PresetKeys :
          LET r == send_command(Self, button_labels[key])
          IN Commit(r.self) /\ modal' = r.modal
    /\ UNCHANGED <<phase, hasGLib, ttPc, idleQueue, resetWin, pinDialogs, renameDlg>>

SendPreset ==
    /\ OnMainScreen
    /\ Len(written) < MaxWrites
    /\ \E key \in PresetKeys :
          LET r == send_command(Self, key)
          IN Commit(r.self) /\ modal' = r.modal
    /\ UNCHANGED <<phase, hasGLib, ttPc, idleQueue, resetWin, pinDialogs, renameDlg>>

SendCustom ==
    /\ OnMainScreen
    /\ Len(written) < MaxWrites
    /\ \E cmd \in CustomTexts :
          LET r == send_custom_command(Self, cmd)
          IN Commit(r.self) /\ modal' = r.modal
    /\ UNCHANGED <<phase, hasGLib, ttPc, idleQueue, resetWin, pinDialogs, renameDlg>>

\* a send, connect or reset dialog that only informs is closed
DismissDialog ==
    /\ Running
    /\ modal \in {"not_connected", "no_port", "connection_error",
                  "authentication_failed", "settings_reset"}
    /\ modal' = "none"
    /\ UNCHANGED <<phase, hasGLib, file, config, button_labels, is_locked, screen,
                   unlock_status, elapsed, auto_lock_timer, orphans, ttPc, idleQueue,
                   ser,
                   open_handles, connect_btn, disconnect_btn, status_label,
                   written, resetWin, pinDialogs, renameDlg>>

OpenRename ==
    /\ OnMainScreen
    /\ renameDlg = "none"
    /\ renameDlg' \in RenameKeys
    /\ UNCHANGED <<phase, hasGLib, file, config, button_labels, is_locked, screen,
                   unlock_status, elapsed, auto_lock_timer, orphans, ttPc, idleQueue,
                   ser,
                   open_handles, connect_btn, disconnect_btn, status_label,
                   written, modal, resetWin, pinDialogs>>

RenameOk ==
    /\ UserCanAct
    /\ renameDlg # "none"
    /\ \E new_name \in NewNames : Commit(rename_on_ok(Self, renameDlg, new_name))
    /\ renameDlg' = "none"
    /\ UNCHANGED <<phase, hasGLib, ttPc, idleQueue, modal, resetWin, pinDialogs>>

RenameCancel ==
    /\ UserCanAct
    /\ renameDlg # "none"
    /\ renameDlg' = "none"
    /\ UNCHANGED <<phase, hasGLib, file, config, button_labels, is_locked, screen,
                   unlock_status, elapsed, auto_lock_timer, orphans, ttPc, idleQueue,
                   ser,
                   open_handles, connect_btn, disconnect_btn, status_label,
                   written, modal, resetWin, pinDialogs>>

\* change_lock_pin: the menu command builds the window around the PIN stored now
OpenPinDialog ==
    /\ OnMainScreen
    /\ OpenPinDialogs < MaxPinDialogs
    /\ pinDialogs' = [pinDialogs EXCEPT ![StoredPin(config)] = @ + 1]
    /\ UNCHANGED <<phase, hasGLib, file, config, button_labels, is_locked, screen,
                   unlock_status, elapsed, auto_lock_timer, orphans, ttPc, idleQueue,
                   ser,
                   open_handles, connect_btn, disconnect_btn, status_label,
                   written, modal, resetWin, renameDlg>>

\* the fields a "Set Lock PIN" window built around current_pin can hold
SaveFields(current_pin) ==
    IF current_pin # ""
    THEN PinEntries \X NewPins \X NewPins
    ELSE NewPins \X {""} \X {""}

PinDialogSave ==
    /\ UserCanAct
    /\ \E current_pin \in PinEntries :
          /\ pinDialogs[current_pin] > 0
          /\ \E f \in SaveFields(current_pin), timeout_text \in TimeoutTexts :
                LET r == on_save(Self, current_pin, f[1], f[2], f[3], timeout_text)
                IN /\ Commit(r.self)
                   /\ pinDialogs' = IF r.close
                                    THEN [pinDialogs EXCEPT ![current_pin] = @ - 1]
                                    ELSE pinDialogs
    /\ UNCHANGED <<phase, hasGLib, ttPc, idleQueue, modal, resetWin, renameDlg>>

PinDialogCancel ==
    /\ UserCanAct
    /\ \E current_pin \in PinEntries :
          /\ pinDialogs[current_pin] > 0
          /\ pinDialogs' = [pinDialogs EXCEPT ![current_pin] = @ - 1]
    /\ UNCHANGED <<phase, hasGLib, file, config, button_labels, is_locked, screen,
                   unlock_status, elapsed, auto_lock_timer, orphans, ttPc, idleQueue,
                   ser,
                   open_handles, connect_btn, disconnect_btn, status_label,
                   written, modal, resetWin, renameDlg>>

\* reset_settings up to its first await
ResetSettings ==
    /\ OnMainScreen
    /\ ~resetWin.open
    /\ LET pin_required == StoredPin(config)
       IN IF pin_required # ""
          THEN /\ resetWin' = [open |-> TRUE, pin_required |-> pin_required]
               /\ modal' = modal
          ELSE /\ resetWin' = resetWin
               /\ modal' = "reset_confirm"
    /\ UNCHANGED <<phase, hasGLib, file, config, button_labels, is_locked, screen,
                   unlock_status, elapsed, auto_lock_timer, orphans, ttPc, idleQueue,
                   ser,
                   open_handles, connect_btn, disconnect_btn, status_label,
                   written, pinDialogs, renameDlg>>

\* OK in show_pin_input_dialog, and reset_settings up to its next await
ResetPinOk ==
    /\ UserCanAct
    /\ resetWin.open
    /\ \E pin_input \in PinEntries :
          modal' = IF pin_input # resetWin.pin_required
                   THEN "authentication_failed"
                   ELSE "reset_confirm"
    /\ resetWin' = NoResetWin
    /\ UNCHANGED <<phase, hasGLib, file, config, button_labels, is_locked, screen,
                   unlock_status, elapsed, auto_lock_timer, orphans, ttPc, idleQueue,
                   ser,
                   open_handles, connect_btn, disconnect_btn, status_label,
                   written, pinDialogs, renameDlg>>

ResetPinCancel ==
    /\ UserCanAct
    /\ resetWin.open
    /\ resetWin' = NoResetWin
    /\ UNCHANGED <<phase, hasGLib, file, config, button_labels, is_locked, screen,
                   unlock_status, elapsed, auto_lock_timer, orphans, ttPc, idleQueue,
                   ser,
                   open_handles, connect_btn, disconnect_btn, status_label,
                   written, modal, pinDialogs, renameDlg>>

\* the answer to the confirmation question, and the rest of reset_settings
ResetAnswer ==
    /\ Running
    /\ modal = "reset_confirm"
    /\ \E confirmed \in BOOLEAN :
          IF confirmed
          THEN Commit(reset_confirmed(Self)) /\ modal' = "settings_reset"
          ELSE Commit(Self) /\ modal' = "none"
    /\ UNCHANGED <<phase, hasGLib, ttPc, idleQueue, resetWin, pinDialogs, renameDlg>>

Shutdown ==
    /\ Running
    /\ Commit(shutdown(Self))
    /\ phase' = "down"
    /\ UNCHANGED <<hasGLib, ttPc, idleQueue, modal, resetWin, pinDialogs, renameDlg>>

\* the application is started again after it has shut down: a new process,
\* with no window or thread of the old one, on the file the old one left
Restart ==
    /\ phase = "down"
    /\ phase' = "run"
    /\ Commit(construct(file))
    /\ ttPc' = "idle"
    /\ idleQueue' = <<>>
    /\ modal' = "none"
    /\ resetWin' = NoResetWin
    /\ pinDialogs' = NoPinDialogs
    /\ renameDlg' = "none"
    /\ UNCHANGED hasGLib

(***************************************************************************)
(* Specifications.                                                         *)
(***************************************************************************)
\* Before __init__ runs there is only the file; the object's fields hold
\* the values construct gives them without one.
Boot(files, platforms) ==
    /\ phase = "boot"
    /\ hasGLib \in platforms
    /\ file \in files
    /\ config = default_settings
    /\ button_labels = default_settings.labels
    /\ is_locked = FALSE
    /\ screen = "main"
    /\ unlock_status = ""
    /\ elapsed = 0
    /\ auto_lock_timer = NoTimer
    /\ orphans = NoOrphans
    /\ ttPc = "idle"
    /\ idleQueue = <<>>
    /\ ser = "none"
    /\ open_handles = 0
    /\ connect_btn = TRUE
    /\ disconnect_btn = FALSE
    /\ status_label = "Not connected"
    /\ written = <<>>
    /\ modal = "none"
    /\ resetWin = NoResetWin
    /\ pinDialogs = NoPinDialogs
    /\ renameDlg = "none"

Init == Boot(InitFiles, BOOLEAN)

\* The whole application: every handler, timer step and dialog.
Next ==
    \/ Construct
    \/ Tick
    \/ TimerFire
    \/ OrphanFire
    \/ TimerRescheduleStop
    \/ TimerReschedule
    \/ AutoLockTask
    \/ ToggleLock
    \/ ToggleTheme
    \/ AttemptUnlock
    \/ Connect
    \/ Disconnect
    \/ SendPreset
    \/ SendCustom
    \/ DismissDialog
    \/ OpenRename
    \/ RenameOk
    \/ RenameCancel
    \/ OpenPinDialog
    \/ PinDialogSave
    \/ PinDialogCancel
    \/ ResetSettings
    \/ ResetPinOk
    \/ ResetPinCancel
    \/ ResetAnswer
    \/ Shutdown

Spec == Init /\ [][Next]_vars

(***************************************************************************)
(* The parts of the application the properties are checked on.  Each is    *)
(* the application with the user keeping to some of its controls; the      *)
(* handlers are the ones above.                                            *)
(***************************************************************************)
\* The lock gate: the lock button, the lock screen, the auto-lock timer and
\* its thread, the "Set Lock PIN" window and "Clear All Settings", on a
\* platform with or without GLib.
GateNext ==
    \/ Construct
    \/ Tick
    \/ TimerFire
    \/ OrphanFire
    \/ TimerRescheduleStop
    \/ TimerReschedule
    \/ AutoLockTask
    \/ ToggleLock
    \/ AttemptUnlock
    \/ OpenPinDialog
    \/ PinDialogSave
    \/ PinDialogCancel
    \/ ResetSettings
    \/ ResetPinOk
    \/ ResetPinCancel
    \/ ResetAnswer
    \/ DismissDialog
    \/ Shutdown

GateSpec == Boot(InitFiles, BOOLEAN) /\ [][GateNext]_vars

(***************************************************************************)
(* Properties.                                                             *)
(***************************************************************************)
\* The step is one in which the user typed the PIN stored at that moment
\* where the application checks a PIN: Unlock on the lock screen, or Save in
\* a "Set Lock PIN" window with it as the current PIN.
EnteredStoredPin ==
    \/ Commit(attempt_unlock(Self, StoredPin(config)))
    \/ \E current_pin \in PinEntries \ {""} :
          /\ pinDialogs[current_pin] > 0
          /\ \E f \in SaveFields(current_pin), timeout_text \in TimeoutTexts :
                /\ f[1] = StoredPin(config)
                /\ Commit(on_save(Self, current_pin, f[1], f[2], f[3], timeout_text).self)

\* C1: a locked application with a stored PIN becomes unlocked only by a
\* step in which the user entered the PIN stored at that moment.
C1_LockGate ==
    [][(is_locked /\ StoredPin(config) # "" /\ ~is_locked') => EnteredStoredPin]_vars

\* C2: attempt_unlock with a PIN other than the non-empty stored PIN leaves
\* the application locked and leaves the configuration record, the file, the
\* last-activity time, the auto-lock timer and the serial handle as they were.
WrongPinAttempt ==
    /\ OnLockScreen
    /\ StoredPin(config) # ""
    /\ \E entered_pin \in PinEntries :
          /\ entered_pin # StoredPin(config)
          /\ Commit(attempt_unlock(Self, entered_pin))

C2_WrongPinChangesNothing ==
    [][WrongPinAttempt =>
          /\ is_locked /\ is_locked'
          /\ UNCHANGED <<config, file, elapsed, auto_lock_timer, ser, open_handles>>]_vars

\* a wrong PIN has been refused on the lock screen, after time has passed
C2_Witness ==
    /\ is_locked
    /\ StoredPin(config) # ""
    /\ unlock_status = "Incorrect PIN"
    /\ elapsed > 0

\* C3: the auto-lock path flips is_locked to True only when the configured
\* timeout is greater than 0 and, at that moment, the time since the last
\* recorded activity is at least the timeout.
AutoLockStep == (AutoLockTask \/ TimerFire \/ OrphanFire) /\ ~is_locked /\ is_locked'

C3_AutoLockOnlyWhenIdle ==
    [][AutoLockStep =>
          /\ StoredTimeout(config) > 0
          /\ elapsed >= StoredTimeout(config)]_vars

\* C9: the timer thread writes neither the lock flag nor the configuration
\* record; only the main thread does.
TimerThreadStep == TimerFire \/ OrphanFire \/ TimerRescheduleStop \/ TimerReschedule

C9_TimerThreadWritesNothing ==
    [][TimerThreadStep => UNCHANGED <<is_locked, config>>]_vars

\* Locking and unlocking alone: the lock button, the lock screen, the theme
\* button (which counts as activity) and the auto-lock timer with its
\* threads.
LockNext ==
    \/ Construct
    \/ Tick
    \/ TimerFire
    \/ OrphanFire
    \/ TimerRescheduleStop
    \/ TimerReschedule
    \/ AutoLockTask
    \/ ToggleLock
    \/ ToggleTheme
    \/ AttemptUnlock
    \/ Shutdown

LockSpec == Boot(InitFiles, BOOLEAN) /\ [][LockNext]_vars

\* The same with the scheduling the claim about auto-lock assumes: time
\* passes, a timer that is due fires, its thread runs on, and the main loop
\* runs the tasks handed to it.
LockFairSpec ==
    /\ LockSpec
    /\ WF_vars(Construct)
    /\ WF_vars(Tick)
    /\ WF_vars(TimerFire)
    /\ WF_vars(OrphanFire)
    /\ WF_vars(TimerRescheduleStop)
    /\ WF_vars(TimerReschedule)
    /\ WF_vars(AutoLockTask)

\* a step of the clock, the timer thread or the idle queue: not the user's
BackgroundStep ==
    Tick \/ TimerFire \/ OrphanFire \/ TimerRescheduleStop \/ TimerReschedule \/ AutoLockTask

AutoLockDue == Running /\ ~is_locked /\ StoredTimeout(config) > 0

\* C4: once the user does nothing more, an unlocked application with a
\* timeout greater than 0 does not stay unlocked: it is eventually locked.
C4_AutoLockEngages ==
    (<>[][BackgroundStep]_vars) => []<>(~AutoLockDue)

\* The serial port: connecting, sending and disconnecting, with the lock
\* button, the lock screen, the auto-lock timer, "Clear All Settings" and
\* shutdown.
SerialNext ==
    \/ Construct
    \/ Tick
    \/ TimerFire
    \/ OrphanFire
    \/ TimerRescheduleStop
    \/ TimerReschedule
    \/ AutoLockTask
    \/ ToggleLock
    \/ AttemptUnlock
    \/ Connect
    \/ Disconnect
    \/ SendPreset
    \/ SendCustom
    \/ DismissDialog
    \/ ResetSettings
    \/ ResetPinOk
    \/ ResetPinCancel
    \/ ResetAnswer
    \/ Shutdown

SerialSpec == Boot(InitFiles, BOOLEAN) /\ [][SerialNext]_vars

\* the step is send_command(cmd), pressed on the main screen
SendStep(cmd) ==
    /\ OnMainScreen
    /\ Len(written) < MaxWrites
    /\ Commit(send_command(Self, cmd).self)
    /\ modal' = send_command(Self, cmd).modal

Commands == PresetKeys \cup (CustomTexts \ {""})

\* C5: a send while the handle is absent or not open writes nothing and is
\* not kept for later; a send while it is open writes that command's line;
\* and nothing else ever writes, so what has been written is exactly the
\* sends made while connected, in order.
C5_SendOnlyWhenConnected ==
    [][/\ \A cmd \in Commands :
             SendStep(cmd) =>
                IF ser = "open"
                THEN written' = Append(written, cmd \o "\n")
                ELSE written' = written /\ modal' = "not_connected"
       /\ written' # written =>
             \E cmd \in Commands :
                SendStep(cmd) /\ ser = "open" /\ written' = Append(written, cmd \o "\n")]_vars

\* a send has been refused after the port, once written to, was closed
C5_Witness ==
    /\ modal = "not_connected"
    /\ ser = "closed"
    /\ written # <<>>

\* C10: at most one handle is open; it opens only by connect and closes
\* only by disconnect or shutdown; after shutdown it is closed and no
\* auto-lock timer is armed.
C10_HandleLifecycle ==
    [][/\ open_handles' <= 1
       /\ (ser # "open" /\ ser' = "open") => Connect
       /\ (ser = "open" /\ ser' # "open") => (Disconnect \/ Shutdown)
       /\ phase' = "down" => (ser' # "open" /\ open_handles' = 0
                              /\ auto_lock_timer'.state # "armed")]_vars

\* The configuration: every control that changes the record (lock button,
\* lock screen, theme button, "Rename Button", "Set Lock PIN", "Clear All
\* Settings"), with the clock stopped.
ConfigNext ==
    \/ Construct
    \/ ToggleLock
    \/ ToggleTheme
    \/ AttemptUnlock
    \/ OpenRename
    \/ RenameOk
    \/ RenameCancel
    \/ OpenPinDialog
    \/ PinDialogSave
    \/ PinDialogCancel
    \/ ResetSettings
    \/ ResetPinOk
    \/ ResetPinCancel
    \/ ResetAnswer
    \/ DismissDialog
    \/ Shutdown

\* a file with one label only and a key the application does not know
SparseFile == ObjectFile(<< <<"labels", << <<"password1", "A">> >> >>, <<"note", "n">> >>)

ConfigSpec == Boot(InitFiles \cup {SparseFile}, {TRUE}) /\ [][ConfigNext]_vars

\* C6: every handler that changes the configuration record returns with
\* the file holding that record, whatever the handler's outcome.
C6_SavedAfterEveryMutation ==
    [][(Running /\ config' # config) => file' = WriteFile(config')]_vars

\* C8: load_config applied to the file save_config writes returns the
\* record that was saved, for every record the application can hold.
C8_SaveLoadRoundTrip ==
    Running => load_config(save_config(Self).file) = config

\* a record with a renamed button, a stored PIN and a timeout has been saved
C8_Witness ==
    /\ Running
    /\ config.labels # default_settings.labels
    /\ StoredPin(config) # ""
    /\ StoredTimeout(config) > 0
    /\ Get(config, "theme", "light") = "light"
    /\ file = WriteFile(config)

(***************************************************************************)
(* load_config on its own: the application is started on each of a range   *)
(* of files and then shut down.                                            *)
(***************************************************************************)
Optional(S) == {<<>>} \cup {<<m>> : m \in S}

LabelTexts == {<<>>, << <<"password1", "A">> >>,
               DumpObject([DefaultLabels EXCEPT !.password2 = "B"], LabelOrder)}
LockTexts == {<<>>, << <<"pin", "1">> >>, << <<"auto_lock_timeout", 1>> >>,
              DumpObject([enabled |-> TRUE, pin |-> "1", auto_lock_timeout |-> 1],
                         LockOrder)}

LoadFiles ==
    {NoFile, InvalidFile, ArrayFile}
    \cup {ObjectFile(a \o b \o c \o d) :
            a \in Optional({<<"labels", t>> : t \in LabelTexts}),
            b \in Optional({<<"theme", "light">>}),
            c \in Optional({<<"lock", t>> : t \in LockTexts}),
            d \in Optional({<<"note", "n">>})}
    \cup {ObjectFile(<< <<"theme", "dark">>, <<"theme", "light">> >>)}

LoadNext ==
    \/ Construct
    \/ Shutdown

LoadSpec == Boot(LoadFiles, {TRUE}) /\ [][LoadNext]_vars

\* the object the file holds lacks field k of its member obj
Lacks(data, obj, k) == obj \notin DOMAIN data \/ k \notin DOMAIN data[obj]

\* C7: the record load_config returns keeps the file's value for every key
\* of the file, and holds the default for every field the file lacks: the
\* four labels, the theme, and the lock's enabled, pin and auto_lock_timeout.
C7_LoadKeepsAndFillsDefaults ==
    (phase # "boot" /\ file.kind = "object") =>
        LET data == json_load(file.text)
        IN /\ \A k \in DOMAIN data : k \in DOMAIN config /\ config[k] = data[k]
           /\ "theme" \notin DOMAIN data => config.theme = default_settings.theme
           /\ \A k \in LabelKeys :
                 Lacks(data, "labels", k) =>
                    /\ k \in DOMAIN config.labels
                    /\ config.labels[k] = default_settings.labels[k]
           /\ \A k \in DOMAIN DefaultLock :
                 Lacks(data, "lock", k) =>
                    /\ k \in DOMAIN config.lock
                    /\ config.lock[k] = default_settings.lock[k]


\* a press of Connect that ends in the "No Port Selected" or the
\* "Connection Error" dialog
FailedConnect == Connect /\ modal' \in {"no_port", "connection_error"}

\* C11: a connect that fails, for want of a valid port or because opening
\* it raised, ends in a dialog and leaves the connection not open, no handle
\* opened, and the buttons, the status text and the port's traffic as they
\* were.
C11_FailedConnectChangesNothing ==
    [][FailedConnect =>
          /\ ser # "open"
          /\ UNCHANGED <<ser, open_handles, connect_btn, disconnect_btn,
                         status_label, written>>]_vars

\* a connect has failed on a port that had been connected and disconnected
C11_Witness ==
    /\ modal = "connection_error"
    /\ ser = "closed"
    /\ connect_btn
    /\ status_label = "Disconnected"


\* C12: started on a settings.json that is missing, is not valid JSON, or
\* holds JSON that is not an object, the application has exactly the default
\* configuration (default labels, theme "dark", lock disabled, empty PIN,
\* timeout 0) and is unlocked, showing the main screen.
C12_CorruptFileGivesDefaults ==
    (phase = "run" /\ file.kind # "object") =>
        /\ config = [labels |-> [password1 |-> "Send Password 1", password2 |-> "Send Password 2",
                                 password3 |-> "Send Password 3", password4 |-> "Send Password 4"],
                     theme |-> "dark",
                     lock |-> [enabled |-> FALSE, pin |-> "", auto_lock_timeout |-> 0]]
        /\ button_labels = config.labels
        /\ ~is_locked
        /\ screen = "main"
        /\ auto_lock_timer = NoTimer

\* the application has started on a file holding a JSON array
C12_Witness ==
    /\ phase = "run"
    /\ file.kind = "array"
    /\ StoredPin(config) = ""
    /\ screen = "main"


\* The wire: the port, the preset and custom sends, and "Rename Button".
WireNext ==
    \/ Construct
    \/ Connect
    \/ Disconnect
    \/ SendPreset
    \/ SendCustom
    \/ DismissDialog
    \/ OpenRename
    \/ RenameOk
    \/ RenameCancel
    \/ Shutdown

WireSpec == Boot(InitFiles \cup {SparseFile}, {TRUE}) /\ [][WireNext]_vars

\* C13: a send that is accepted makes exactly one write, of the command
\* text followed by one newline; a preset button writes its fixed key,
\* whatever its label; a custom send writes the text of the field, and
\* nothing when the field is empty.
C13_WireFormat ==
    [][/\ \A cmd \in Commands :
             (SendStep(cmd) /\ ser = "open") =>
                /\ Len(written') = Len(written) + 1
                /\ written'[Len(written')] = cmd \o "\n"
                /\ SubSeq(written', 1, Len(written)) = written
       /\ (SendPreset /\ written' # written) =>
             \E k \in {"password1", "password2", "password3", "password4"} :
                written' = Append(written, k \o "\n")
       /\ (SendCustom /\ written' # written) =>
             \E cmd \in CustomTexts :
                cmd # "" /\ written' = Append(written, cmd \o "\n")]_vars

\* a preset button whose label was changed has sent its key
C13_Witness ==
    /\ button_labels["password1"] = "A"
    /\ Len(written) > 0
    /\ written[Len(written)] = "password1\n"


\* reset_settings has run to its end after the user confirmed
ResetCompleted == ResetAnswer /\ modal' = "settings_reset"

\* C14: when a confirmed reset completes, the configuration and the file
\* are the defaults, the button labels are the default labels, the port is
\* closed, and what depends on the configuration agrees with the defaults:
\* the application is not locked and no auto-lock timer is armed.
C14_ResetRestoresDefaults ==
    [][ResetCompleted =>
          /\ config' = default_settings
          /\ file' = WriteFile(default_settings)
          /\ button_labels' = default_settings.labels
          /\ ser' # "open"
          /\ is_locked' = default_settings.lock.enabled
          /\ screen' = "main"
          /\ auto_lock_timer'.state # "armed"]_vars


\* no handler is part-way: no coroutine waits on a dialog of its own
NoHandlerRunning == Running /\ modal = "none" /\ ~resetWin.open

\* C18: whenever no handler is part-way, is_locked equals
\* config["lock"]["enabled"] (False where the record has no such field).
C18_LockFlagAgreesWithConfig ==
    NoHandlerRunning => is_locked = Get(LockOf(config), "enabled", FALSE)


\* "Clear All Settings" among the controls that change what it checks and
\* what it resets: the lock button, the lock screen, the "Set Lock PIN"
\* window and the port, started with PIN "2", PIN "1" or none.
ResetFiles ==
    {NoFile, SparseFile,
     WriteFile(FullConfig(FALSE, "2", 0)),
     WriteFile(FullConfig(FALSE, "1", 0))}

ResetNext ==
    \/ Construct
    \/ Connect
    \/ Disconnect
    \/ ToggleLock
    \/ AttemptUnlock
    \/ OpenPinDialog
    \/ PinDialogSave
    \/ PinDialogCancel
    \/ ResetSettings
    \/ ResetPinOk
    \/ ResetPinCancel
    \/ ResetAnswer
    \/ DismissDialog
    \/ Shutdown

ResetSpec == Boot(ResetFiles, {TRUE}) /\ [][ResetNext]_vars

\* OK pressed in the reset's PIN window with pin_input typed into it
ResetPinEntered(pin_input) ==
    /\ ResetPinOk
    /\ modal' = IF pin_input # resetWin.pin_required
                THEN "authentication_failed"
                ELSE "reset_confirm"

\* the ways a reset ends without resetting
ResetAbandoned ==
    \/ ResetPinCancel
    \/ ResetPinOk /\ modal' = "authentication_failed"
    \/ ResetAnswer /\ modal' = "none"

\* C15: with a PIN stored, the reset goes on to its confirmation only if
\* the PIN typed into its window equals the stored PIN; a reset that is
\* cancelled, refused for a wrong PIN or declined leaves the configuration,
\* the file, the labels, the port and the lock state as they were.
C15_ResetAuthenticated ==
    [][/\ \A pin_input \in PinEntries :
             (/\ ResetPinEntered(pin_input)
              /\ StoredPin(config) # ""
              /\ modal' = "reset_confirm") => pin_input = StoredPin(config)
       /\ ResetAbandoned =>
             UNCHANGED <<config, file, button_labels, ser, open_handles,
                         is_locked, screen>>]_vars


\* Save pressed in a "Set Lock PIN" window built around current_pin, with
\* f in its PIN fields and timeout_text in its timeout field
PinSaveStep(current_pin, f, timeout_text) ==
    /\ UserCanAct
    /\ pinDialogs[current_pin] > 0
    /\ LET r == on_save(Self, current_pin, f[1], f[2], f[3], timeout_text)
       IN /\ Commit(r.self)
          /\ pinDialogs' = IF r.close
                           THEN [pinDialogs EXCEPT ![current_pin] = @ - 1]
                           ELSE pinDialogs

\* the window's own checks of its PIN fields pass
PinFieldsAccepted(current_pin, f) ==
    current_pin = "" \/ (f[1] = current_pin /\ f[2] = f[3])

\* C16: a Save changes the stored PIN or the lock state only if, when it is
\* pressed, no PIN is stored or the current PIN entered equals the stored
\* PIN and the new PIN equals its confirmation; a Save rejected for a wrong
\* current PIN or a mismatched confirmation changes neither the
\* configuration, the lock state nor the timer.
C16_PinChangeAuthorised ==
    [][\A current_pin \in PinEntries :
          \A f \in SaveFields(current_pin), timeout_text \in TimeoutTexts :
             PinSaveStep(current_pin, f, timeout_text) =>
                /\ (StoredPin(config') # StoredPin(config) \/ is_locked' # is_locked) =>
                      \/ StoredPin(config) = ""
                      \/ f[1] = StoredPin(config) /\ f[2] = f[3]
                /\ ~PinFieldsAccepted(current_pin, f) =>
                      UNCHANGED <<config, file, is_locked, screen, auto_lock_timer>>]_vars

\* C17: a Save that ends with "Invalid timeout value" leaves the stored
\* PIN, the enabled flag, is_locked, the stored timeout and the timer as
\* they were; a Save that succeeds stores the entered integer, or 0 if it
\* is negative.
C17_SaveAllOrNothing ==
    [][\A current_pin \in PinEntries :
          \A f \in SaveFields(current_pin), timeout_text \in TimeoutTexts :
             (PinSaveStep(current_pin, f, timeout_text)
                /\ PinFieldsAccepted(current_pin, f)) =>
                LET entered == ParseInt(IF timeout_text = <<>> THEN <<"0">>
                                        ELSE timeout_text)
                IN IF entered.ok
                   THEN StoredTimeout(config') = Max(entered.value, 0)
                   ELSE /\ LockOf(config') = LockOf(config)
                        /\ UNCHANGED <<is_locked, auto_lock_timer>>]_vars


\* C19: every pending auto-lock timer is the one auto_lock_timer
\* references, which stop_auto_lock_timer cancels: there is never a second
\* one.
C19_AtMostOneTimer ==
    CountOrphans(orphans) = 0


\* The application over several runs: locking, unlocking, the "Set Lock
\* PIN" window and "Clear All Settings", shutdown and the next start.
RestartNext ==
    \/ Construct
    \/ ToggleLock
    \/ AttemptUnlock
    \/ OpenPinDialog
    \/ PinDialogSave
    \/ PinDialogCancel
    \/ ResetSettings
    \/ ResetPinOk
    \/ ResetPinCancel
    \/ ResetAnswer
    \/ DismissDialog
    \/ Shutdown
    \/ Restart

RestartSpec == Boot(InitFiles, {TRUE}) /\ [][RestartNext]_vars

\* C20: the next start finds the lock state the application had when it
\* exited: locked, it starts locked and shows the lock screen; unlocked, it
\* starts unlocked.
C20_LockSurvivesRestart ==
    [][Restart =>
          /\ is_locked' = is_locked
          /\ screen' = IF is_locked THEN "lock" ELSE "main"]_vars

====
